---- MODULE Spec2Model ----
(***************************************************************************)
(* Model of the single-file ReAct agent (single_file_agent/agent.ts).      *)
(*                                                                         *)
(* A text is a sequence of tokens.  A token is either one character that   *)
(* the regular expressions of the agent distinguish (a blank, a newline,   *)
(* a bracket, a digit, an operator) or a word none of whose characters     *)
(* they distinguish.  The literals "Action:" and "Answer:" are tokens.     *)
(***************************************************************************)
EXTENDS Integers, Sequences, FiniteSets, TLC

(* ----------------------------- bounds ---------------------------------- *)

\* Number of requests that can be in progress at once (NextConc).
MaxRuns == 2

\* Model invocations of one run: the run is cut off after this many.
MaxCalls == 11

\* The model changes the text of its reply at most this often in one run.
MaxSwitches == 1

\* Model invocations of one run when several runs are interleaved.
MaxConcCalls == 2

Runs == 1..MaxRuns

(* ------------------------------ texts ---------------------------------- *)

NL == "\n"

\* What \s matches and what trim() strips.
Whitespace == {" ", NL}

RECURSIVE Trim(_)
\* String.prototype.trim
Trim(s) ==
  IF s = << >> THEN s
  ELSE IF Head(s) \in Whitespace THEN Trim(Tail(s))
  ELSE IF s[Len(s)] \in Whitespace THEN Trim(SubSeq(s, 1, Len(s) - 1))
  ELSE s

\* String.prototype.toLowerCase, on one token
LowerToken(t) ==
  CASE t = "Calculator" -> "calculator"
    [] t = "CALCULATOR" -> "calculator"
    [] t = "YourTool"   -> "yourtool"
    [] t = "Weather"    -> "weather"
    [] t = "Answer:"    -> "answer:"
    [] t = "Action:"    -> "action:"
    [] t = "NYC"        -> "nyc"
    [] OTHER            -> t

toLowerCase(s) == [i \in 1..Len(s) |-> LowerToken(s[i])]

\* The least index i >= from with s[i] = t, or 0.
IndexOf(s, t, from) ==
  IF \E i \in from..Len(s) : s[i] = t
  THEN CHOOSE i \in from..Len(s) : s[i] = t /\ \A j \in from..(i - 1) : s[j] # t
  ELSE 0

\* The index just after the longest run of whitespace that starts at from.
SkipWhitespace(s, from) ==
  CHOOSE e \in from..(Len(s) + 1) :
    /\ \A j \in from..(e - 1) : s[j] \in Whitespace
    /\ (e <= Len(s) => s[e] \notin Whitespace)

NoMatch == [matched |-> FALSE, toolName |-> << >>, toolInput |-> << >>]

\* The match of /Action:\s*([^\[]+)\[([^\]]+)\]/ that starts at index i, where
\* s[i] = "Action:".  The groups stop at the first "[" and the first "]"
\* that follow; \s* gives back its last blank when the name is all blanks.
ActionMatchAt(s, i) ==
  LET p == i + 1
      j == IndexOf(s, "[", p)
      k == IF j = 0 THEN 0 ELSE IndexOf(s, "]", j + 1)
      w == SkipWhitespace(s, p)
  IN  IF j = 0 \/ j = p \/ k = 0 \/ k = j + 1
      THEN NoMatch
      ELSE [matched   |-> TRUE,
            toolName  |-> IF w < j THEN SubSeq(s, w, j - 1) ELSE SubSeq(s, j - 1, j - 1),
            toolInput |-> SubSeq(s, j + 1, k - 1)]

\* lastMessage.content.match(/Action:\s*([^\[]+)\[([^\]]+)\]/): the leftmost match
\* ActionMatch with the last match instead of the first
ActionMatch_last(s) ==
  LET starts == {i \in 1..Len(s) : s[i] = "Action:" /\ ActionMatchAt(s, i).matched}
  IN  IF starts = {} THEN NoMatch
      ELSE ActionMatchAt(s, CHOOSE i \in starts : \A j \in starts : j <= i)

ActionMatch(s) ==
  LET starts == {i \in 1..Len(s) : s[i] = "Action:" /\ ActionMatchAt(s, i).matched}
  IN  IF starts = {} THEN NoMatch
      ELSE ActionMatchAt(s, CHOOSE i \in starts : \A j \in starts : i <= j)

NoAnswerMatch == [matched |-> FALSE, text |-> << >>]

\* The match of /Answer:\s*(.*)$/ that starts at index i, where
\* s[i] = "Answer:".  There are no flags: "." stops at a newline and "$" is
\* the end of the text, so nothing after the blanks may hold a newline.
AnswerMatchAt(s, i) ==
  LET w == SkipWhitespace(s, i + 1)
  IN  IF \E j \in w..Len(s) : s[j] = NL
      THEN NoAnswerMatch
      ELSE [matched |-> TRUE, text |-> SubSeq(s, w, Len(s))]

\* lastMessage.content.match(/Answer:\s*(.*)$/): the leftmost match
AnswerMatch(s) ==
  LET starts == {i \in 1..Len(s) : s[i] = "Answer:" /\ AnswerMatchAt(s, i).matched}
  IN  IF starts = {} THEN NoAnswerMatch
      ELSE AnswerMatchAt(s, CHOOSE i \in starts : \A j \in starts : i <= j)

(* ------------------------------ tools ---------------------------------- *)

Digit == {"0", "1", "2", "3", "4", "5", "6", "7", "8", "9"}

\* The characters of /^[0-9.+\-*\/()\s]+$/
CalculatorChars == Digit \cup {".", "+", "-", "*", "/", "(", ")"} \cup Whitespace

DigitValue(d) ==
  CASE d = "0" -> 0 [] d = "1" -> 1 [] d = "2" -> 2 [] d = "3" -> 3 [] d = "4" -> 4
    [] d = "5" -> 5 [] d = "6" -> 6 [] d = "7" -> 7 [] d = "8" -> 8 [] d = "9" -> 9

DigitToken(n) ==
  CASE n = 0 -> "0" [] n = 1 -> "1" [] n = 2 -> "2" [] n = 3 -> "3" [] n = 4 -> "4"
    [] n = 5 -> "5" [] n = 6 -> "6" [] n = 7 -> "7" [] n = 8 -> "8" [] n = 9 -> "9"

\* A JavaScript number, as far as the expressions below produce one: an
\* integer, an infinity, NaN, or ("frac") a quotient that is not an integer.
Num(n)   == [kind |-> "num", n |-> n]
PosInf   == [kind |-> "inf", n |-> 1]
NegInf   == [kind |-> "inf", n |-> -1]
NaN      == [kind |-> "nan", n |-> 0]
Fraction == [kind |-> "frac", n |-> 0]

Sign(n) == IF n > 0 THEN 1 ELSE IF n < 0 THEN -1 ELSE 0

NumAdd(a, b) ==
  CASE a.kind = "frac" \/ b.kind = "frac" -> Fraction
    [] a.kind = "nan" \/ b.kind = "nan" -> NaN
    [] a.kind = "inf" /\ b.kind = "inf" -> IF a.n = b.n THEN a ELSE NaN
    [] a.kind = "inf" -> a
    [] b.kind = "inf" -> b
    [] OTHER -> Num(a.n + b.n)

NumNeg(a) == IF a.kind \in {"num", "inf"} THEN [a EXCEPT !.n = -a.n] ELSE a

NumMul(a, b) ==
  CASE a.kind = "frac" \/ b.kind = "frac" -> Fraction
    [] a.kind = "nan" \/ b.kind = "nan" -> NaN
    [] a.kind = "inf" \/ b.kind = "inf" ->
         IF Sign(a.n) * Sign(b.n) = 0 THEN NaN
         ELSE [kind |-> "inf", n |-> Sign(a.n) * Sign(b.n)]
    [] OTHER -> Num(a.n * b.n)

Abs(n) == IF n < 0 THEN -n ELSE n

\* IEEE division: a quotient by zero is an infinity or NaN, never an error.
NumDiv(a, b) ==
  CASE a.kind = "frac" \/ b.kind = "frac" -> Fraction
    [] a.kind = "nan" \/ b.kind = "nan" -> NaN
    [] a.kind = "inf" /\ b.kind = "inf" -> NaN
    [] a.kind = "inf" -> IF b.n < 0 THEN NumNeg(a) ELSE a
    [] b.kind = "inf" -> Num(0)
    [] b.n = 0 -> IF a.n = 0 THEN NaN ELSE IF a.n > 0 THEN PosInf ELSE NegInf
    [] Abs(a.n) % Abs(b.n) = 0 -> Num(Sign(a.n) * Sign(b.n) * (Abs(a.n) \div Abs(b.n)))
    [] OTHER -> Fraction

RECURSIVE NatText(_)
NatText(n) == IF n < 10 THEN <<DigitToken(n)>> ELSE Append(NatText(n \div 10), DigitToken(n % 10))

\* String(result)
NumText(a) ==
  CASE a.kind = "nan" -> <<"NaN">>
    [] a.kind = "inf" -> IF a.n > 0 THEN <<"Infinity">> ELSE <<"-Infinity">>
    [] a.kind = "frac" -> <<"<non-integer>">>
    [] OTHER -> IF a.n < 0 THEN <<"-">> \o NatText(-a.n) ELSE NatText(a.n)

ParseFail == [ok |-> FALSE, v |-> NaN, i |-> 0]

RECURSIVE ParseNumber(_, _, _)
\* The digits from index i on; acc is the value of the digits before i.
ParseNumber(s, i, acc) ==
  IF i <= Len(s) /\ s[i] \in Digit
  THEN ParseNumber(s, i + 1, 10 * acc + DigitValue(s[i]))
  ELSE [ok |-> TRUE, v |-> Num(acc), i |-> i]

RECURSIVE ParseExpr(_, _), ParseExprRest(_, _, _), ParseTerm(_, _)
RECURSIVE ParseTermRest(_, _, _), ParsePrimary(_, _)

\* Primary ::= digits | "(" Expr ")"
ParsePrimary(s, i0) ==
  LET i == SkipWhitespace(s, i0)
  IN  IF i > Len(s) THEN ParseFail
      ELSE IF s[i] \in Digit THEN ParseNumber(s, i, 0)
      ELSE IF s[i] = "("
      THEN LET e == ParseExpr(s, i + 1)
               c == IF e.ok THEN SkipWhitespace(s, e.i) ELSE 0
           IN  IF e.ok /\ c <= Len(s) /\ s[c] = ")"
               THEN [ok |-> TRUE, v |-> e.v, i |-> c + 1]
               ELSE ParseFail
      ELSE ParseFail

\* Term ::= Primary (("*" | "/") Primary)*, left to right
ParseTermRest(s, i0, acc) ==
  LET i == SkipWhitespace(s, i0)
  IN  IF i <= Len(s) /\ s[i] \in {"*", "/"}
      THEN LET r == ParsePrimary(s, i + 1)
           IN  IF ~r.ok THEN ParseFail
               ELSE ParseTermRest(s, r.i, IF s[i] = "*" THEN NumMul(acc, r.v) ELSE NumDiv(acc, r.v))
      ELSE [ok |-> TRUE, v |-> acc, i |-> i]

ParseTerm(s, i) ==
  LET r == ParsePrimary(s, i) IN IF r.ok THEN ParseTermRest(s, r.i, r.v) ELSE ParseFail

\* Expr ::= Term (("+" | "-") Term)*, left to right
ParseExprRest(s, i0, acc) ==
  LET i == SkipWhitespace(s, i0)
  IN  IF i <= Len(s) /\ s[i] \in {"+", "-"}
      THEN LET r == ParseTerm(s, i + 1)
           IN  IF ~r.ok THEN ParseFail
               ELSE ParseExprRest(s, r.i, IF s[i] = "+" THEN NumAdd(acc, r.v) ELSE NumAdd(acc, NumNeg(r.v)))
      ELSE [ok |-> TRUE, v |-> acc, i |-> i]

ParseExpr(s, i) ==
  LET r == ParseTerm(s, i) IN IF r.ok THEN ParseExprRest(s, r.i, r.v) ELSE ParseFail

\* Function("return (" + input + ")")() for an input of digits, the binary
\* operators + - * / and parentheses: the value, or not ok when the input
\* does not parse.  The digits of a quotient that is not an integer are
\* not modelled.
Evaluate(input) ==
  LET r == ParseExpr(input, 1)
  IN  IF r.ok /\ r.i = Len(input) + 1
      THEN [ok |-> TRUE, v |-> r.v]
      ELSE [ok |-> FALSE, v |-> NaN]

\* The message of the SyntaxError that Function raises on an input that
\* does not parse.
SyntaxErrorMessage == "Unexpected token"

\* The test without its anchors: some character is one of CalculatorChars
CalculatorValid_unanchored(input) ==
  \E i \in 1..Len(input) : input[i] \in CalculatorChars

\* /^[0-9.+\-*\/()\s]+$/.test(input)
CalculatorValid(input) ==
  input # << >> /\ \A i \in 1..Len(input) : input[i] \in CalculatorChars

\* String(Function("return (" + input + ")")()), or what the catch returns
EvaluateText(input) ==
  IF Evaluate(input).ok
  THEN NumText(Evaluate(input).v)
  ELSE <<"Error: ", SyntaxErrorMessage>>

\* Calculator.run
CalculatorRun(input) ==
  IF ~CalculatorValid(input)
  THEN <<"Invalid expression">>
  ELSE EvaluateText(input)

\* The tool of the array "tools", and the tool that the comment in the array
\* describes as one that can be added: an async run, which can reject.
Calculator == [name |-> <<"Calculator">>]
YourTool   == [name |-> <<"YourTool">>]

\* The array "tools": as shipped, and with the additional tool.
Registries == {<<Calculator>>, <<Calculator, YourTool>>}

\* What YourTool returns, and the message of the failure it raises.
YourToolResult == <<"sunny">>
YourToolFailure == <<"boom">>

\* await tool.run(input): the text returned, or the failure raised.
ToolOutcomes(tool, input) ==
  IF tool = Calculator
  THEN {[raised |-> FALSE, text |-> CalculatorRun(input)]}
  ELSE {[raised |-> FALSE, text |-> YourToolResult],
        [raised |-> TRUE,  text |-> YourToolFailure]}

\* state.tools.find(t => t.name.toLowerCase() === toolName.trim().toLowerCase()):
\* the index of the first such tool, or 0.
FindTool(registry, toolName) ==
  LET hits == {i \in 1..Len(registry) :
                 toLowerCase(registry[i].name) = toLowerCase(Trim(toolName))}
  IN  IF hits = {} THEN 0 ELSE CHOOSE i \in hits : \A j \in hits : i <= j

(* --------------------------- messages ---------------------------------- *)

\* ChatMessage
Message(role, content) == [role |-> role, content |-> content]

\* toolDescriptions: one line per tool of the array
toolDescriptions ==
  <<"Calculator", ": ", "Performs arithmetic calculations. Usage: ", "Calculator", "[", "expression", "]">>

\* systemPrompt: the tools, then the format the model is to follow
systemPrompt ==
  <<"You are a smart assistant with access to the following tools:", NL>>
    \o toolDescriptions
    \o <<NL, NL, "Follow this format strictly:", NL,
         "Thought:", " ", "<your reasoning here>", NL,
         "Action:", " ", "<ToolName>", "[", "<tool input>", "]", NL,
         "Observation:", " ", "<result of the tool action>", NL,
         "Thought:", " ", "<final reasoning>", NL,
         "Answer:", " ", "<your final answer to the user's query>", NL>>

\* final_answer?: string
undefined == [present |-> FALSE, text |-> << >>]
Defined(text) == [present |-> TRUE, text |-> text]

\* InitialState without the message of the system prompt
InitialState_no_system(query) ==
  [messages      |-> <<Message("user", query)>>,
   current_step  |-> 0,
   final_answer  |-> undefined]

\* The value that graph.invoke is given
InitialState(query) ==
  [messages      |-> <<Message("system", systemPrompt), Message("user", query)>>,
   current_step  |-> 0,
   final_answer  |-> undefined]

\* Before a request has arrived
NoState == [messages |-> << >>, current_step |-> 0, final_answer |-> undefined]

\* The content of the last message of role "assistant", or the empty text
LastAssistant(messages) ==
  LET idx == {i \in 1..Len(messages) : messages[i].role = "assistant"}
  IN  IF idx = {} THEN << >>
      ELSE messages[CHOOSE i \in idx : \A j \in idx : j <= i].content

(* -------------------------- the model's replies ------------------------ *)

Thought == <<"Thought:", " ", "I need to think">>

CalcAction(name, input) == <<"Thought:", " ", "compute", NL, "Action:", " ", name, "[">> \o input \o <<"]">>

\* The texts that callOpenRouter returns in this model: no action and no
\* answer; a tool of neither array; a tool of the extended array; two
\* actions; an answer; an empty answer; an action and an answer; an action
\* whose name holds "Answer:".
Replies ==
  { Thought,
    <<"Action:", " ", "Weather", "[", "NYC", "]">>,
    <<"Action:", " ", "YourTool", " ", "[", "NYC", "]">>,
    <<"Action:", " ", "Weather", "[", "NYC", "]", NL, "Action:", " ", "Calculator", "[", "1", "]">>,
    <<"Thought:", " ", "done", NL, "Answer:", " ", "4", " ">>,
    <<"Answer:">>,
    CalcAction("CALCULATOR", <<" ", "2", "+", "2">>) \o <<NL, "Answer:", " ", "4">>,
    <<"Action:", " ", "Answer:", " ", "x", "[", "y", "]", NL, "Thought:", " ", "wait">> }

\* The texts that callOpenRouter returns when runs are interleaved
ConcReplies ==
  { Thought,
    <<"Action:", " ", "Weather", "[", "NYC", "]">>,
    <<"Thought:", " ", "done", NL, "Answer:", " ", "4", " ">> }

\* The messages of the errors that callOpenRouter throws
ModelErrors ==
  { <<"OpenRouter API error: HTTP ", "500", " - ", "upstream">>,
    <<"Invalid response from LLM (no content)">> }

\* The error that callOpenRouter throws when runs are interleaved
ConcErrors == { <<"Invalid response from LLM (no content)">> }

(* ------------------------------ requests ------------------------------- *)

\* A JSON value of the request body, as far as serve tells them apart
JUndefined == [t |-> "undefined", s |-> << >>]
JNumber    == [t |-> "number", s |-> << >>]
JString(s) == [t |-> "string", s |-> s]

Query1 == <<"What is 2+2?">>
Query2 == <<"What is the weather?">>

Body(q, qn) == [json |-> TRUE, query |-> q, question |-> qn]
BadBody == [json |-> FALSE, query |-> JUndefined, question |-> JUndefined]

Request(method, body) == [method |-> method, body |-> body]

\* The requests of this model
Requests ==
  { Request("GET", BadBody),
    Request("PUT", BadBody),
    Request("POST", BadBody),
    Request("POST", Body(JUndefined, JUndefined)),
    Request("POST", Body(JNumber, JUndefined)),
    Request("POST", Body(JString(<< >>), JString(Query1))),
    Request("POST", Body(JString(Query1), JUndefined)),
    Request("POST", Body(JUndefined, JString(Query1))) }

\* The request of the run r when several requests are in progress
ConcRequest(r) ==
  IF r % 2 = 1
  THEN Request("POST", Body(JString(Query1), JUndefined))
  ELSE Request("POST", Body(JUndefined, JString(Query2)))

\* data.query ?? data.question
QueryOf(body) == IF body.query.t = "undefined" THEN body.question ELSE body.query

\* BadQuery that only looks for a missing query
BadQuery_missing_only(query) == query.t = "undefined"

\* !query || typeof query !== "string"
BadQuery(query) == query.t # "string" \/ query.s = << >>

\* Response
NoResponse == [status |-> 0, kind |-> "none", text |-> << >>]
Response(status, kind, text) == [status |-> status, kind |-> kind, text |-> text]

(* ------------------------------- state --------------------------------- *)

VARIABLES
  tools,      \* the array "tools"
  pc,         \* per run: the node of the graph that runs next, or where serve is
  state,      \* per run: the AgentState that the graph threads through its nodes
  error,      \* per run: the message of the error that graph.invoke rejected with
  response,   \* per run: the Response that serve returned
  calls,      \* per run: the number of times callOpenRouter was called
  switches,   \* per run: the number of times the model changed its reply
  before,     \* per run: the transcript that the last callOpenRouter was given
  outcome,    \* per run: what the last tool_executor did
  log,        \* per run: the messages that the steps of this run have made
  trace,      \* per run: the nodes of the graph that have run, in order
  calc        \* a call of Calculator.run, taken by itself

vars == <<tools, pc, state, error, response, calls, switches, before, outcome, log,
          trace, calc>>

\* An entry of trace: the node, and for response_generator whether its
\* pattern matched
Ran(node, answered) == [node |-> node, answered |-> answered]

\* A call of Calculator.run: "idle" when there is none, "called" before the
\* test, "evaluating" after the test has passed, "returned" with the result
NoCall == [phase |-> "idle", input |-> << >>, result |-> << >>, evaluated |-> FALSE]

\* What tool_executor did: "none" before it ran, "noaction", "notfound",
\* "returned" or "raised", with the text returned or the message raised
Outcome(kind, text) == [kind |-> kind, text |-> text]

InitRuns ==
  /\ tools \in Registries
  /\ pc = [r \in Runs |-> "idle"]
  /\ state = [r \in Runs |-> NoState]
  /\ error = [r \in Runs |-> << >>]
  /\ response = [r \in Runs |-> NoResponse]
  /\ calls = [r \in Runs |-> 0]
  /\ switches = [r \in Runs |-> 0]
  /\ before = [r \in Runs |-> << >>]
  /\ outcome = [r \in Runs |-> Outcome("none", << >>)]
  /\ log = [r \in Runs |-> << >>]
  /\ trace = [r \in Runs |-> << >>]

Init == InitRuns /\ calc = NoCall

\* The handler of serve, up to the call of graph.invoke
serve(r, req) ==
  /\ pc[r] = "idle"
  /\ UNCHANGED <<calc, tools, error, calls, switches, before, outcome, trace>>
  /\ IF req.method = "GET"
     THEN /\ response' = [response EXCEPT ![r] = Response(200, "welcome", << >>)]
          /\ pc' = [pc EXCEPT ![r] = "done"]
          /\ UNCHANGED <<state, log>>
     ELSE IF req.method # "POST"
     THEN /\ response' = [response EXCEPT ![r] = Response(405, "text", <<"Method Not Allowed">>)]
          /\ pc' = [pc EXCEPT ![r] = "done"]
          /\ UNCHANGED <<state, log>>
     ELSE IF ~req.body.json
     THEN /\ response' = [response EXCEPT ![r] = Response(400, "text", <<"Invalid JSON body">>)]
          /\ pc' = [pc EXCEPT ![r] = "done"]
          /\ UNCHANGED <<state, log>>
     ELSE IF BadQuery(QueryOf(req.body))
     THEN /\ response' = [response EXCEPT ![r] =
                            Response(400, "text", <<"Bad Request: Missing \"query\" string.">>)]
          /\ pc' = [pc EXCEPT ![r] = "done"]
          /\ UNCHANGED <<state, log>>
     ELSE /\ state' = [state EXCEPT ![r] = InitialState(QueryOf(req.body).s)]
          /\ log' = [log EXCEPT ![r] = InitialState(QueryOf(req.body).s).messages]
          /\ pc' = [pc EXCEPT ![r] = "parse_input"]
          /\ UNCHANGED response

\* The edges with tool_executor left out
edge_skip_dispatch(node) == "response_generator"

\* workflow.addEdge: the node that runs after the node
edge(node) == IF node = "parse_input" THEN "tool_executor" ELSE "response_generator"

\* parse_input that catches the error of callOpenRouter and runs again
parse_input_retry(r, replies, errors, maxCalls) ==
  /\ pc[r] = "parse_input"
  /\ calls[r] < maxCalls
  /\ calls' = [calls EXCEPT ![r] = @ + 1]
  /\ before' = [before EXCEPT ![r] = state[r].messages]
  /\ trace' = [trace EXCEPT ![r] = Append(@, Ran("parse_input", FALSE))]
  /\ UNCHANGED <<calc, tools, response, outcome>>
  /\ \/ \E reply \in replies :
          LET changed == calls[r] > 0 /\ reply # LastAssistant(state[r].messages)
          IN  /\ changed => switches[r] < MaxSwitches
              /\ switches' = [switches EXCEPT ![r] = IF changed THEN @ + 1 ELSE @]
              /\ state' = [state EXCEPT ![r].messages = Append(@, Message("assistant", reply))]
              /\ log' = [log EXCEPT ![r] = Append(@, Message("assistant", reply))]
              /\ pc' = [pc EXCEPT ![r] = edge("parse_input")]
              /\ UNCHANGED error
     \/ \E e \in errors :
          /\ error' = [error EXCEPT ![r] = e]
          /\ UNCHANGED <<pc, state, switches, log>>

\* parse_input with one array of messages for all the runs in progress
parse_input_shared(r, replies, errors, maxCalls) ==
  /\ pc[r] = "parse_input"
  /\ calls[r] < maxCalls
  /\ calls' = [calls EXCEPT ![r] = @ + 1]
  /\ before' = [before EXCEPT ![r] = state[r].messages]
  /\ trace' = [trace EXCEPT ![r] = Append(@, Ran("parse_input", FALSE))]
  /\ UNCHANGED <<calc, tools, response, outcome>>
  /\ \/ \E reply \in replies :
          LET changed == calls[r] > 0 /\ reply # LastAssistant(state[r].messages)
          IN  /\ changed => switches[r] < MaxSwitches
              /\ switches' = [switches EXCEPT ![r] = IF changed THEN @ + 1 ELSE @]
              /\ state' = [q \in Runs |->
                             IF state[q].messages # << >>
                             THEN [state[q] EXCEPT !.messages = Append(@, Message("assistant", reply))]
                             ELSE state[q]]
              /\ log' = [log EXCEPT ![r] = Append(@, Message("assistant", reply))]
              /\ pc' = [pc EXCEPT ![r] = edge("parse_input")]
              /\ UNCHANGED error
     \/ \E e \in errors :
          /\ error' = [error EXCEPT ![r] = e]
          /\ pc' = [pc EXCEPT ![r] = "rejected"]
          /\ UNCHANGED <<state, switches, log>>

\* Node parse_input: callOpenRouter returns a reply, or throws, which
\* rejects graph.invoke.
parse_input(r, replies, errors, maxCalls) ==
  /\ pc[r] = "parse_input"
  /\ calls[r] < maxCalls
  /\ calls' = [calls EXCEPT ![r] = @ + 1]
  /\ before' = [before EXCEPT ![r] = state[r].messages]
  /\ trace' = [trace EXCEPT ![r] = Append(@, Ran("parse_input", FALSE))]
  /\ UNCHANGED <<calc, tools, response, outcome>>
  /\ \/ \E reply \in replies :
          LET changed == calls[r] > 0 /\ reply # LastAssistant(state[r].messages)
          IN  /\ changed => switches[r] < MaxSwitches
              /\ switches' = [switches EXCEPT ![r] = IF changed THEN @ + 1 ELSE @]
              /\ state' = [state EXCEPT ![r].messages = Append(@, Message("assistant", reply))]
              /\ log' = [log EXCEPT ![r] = Append(@, Message("assistant", reply))]
              /\ pc' = [pc EXCEPT ![r] = edge("parse_input")]
              /\ UNCHANGED error
     \/ \E e \in errors :
          /\ error' = [error EXCEPT ![r] = e]
          /\ pc' = [pc EXCEPT ![r] = "rejected"]
          /\ UNCHANGED <<state, switches, log>>

\* NotFound with the name trimmed, as the lookup trims it
NotFound_trimmed(toolName) == <<"Tool \"">> \o Trim(toolName) \o <<"\" not found">>

\* `Tool "${toolName}" not found`
NotFound(toolName) == <<"Tool \"">> \o toolName \o <<"\" not found">>

\* Observation with the role of a reply
Observation_as_assistant(observation) ==
  Message("assistant", <<"Observation: ">> \o observation)

\* { role: "system", content: `Observation: ${observation}` }
Observation(observation) == Message("system", <<"Observation: ">> \o observation)

\* [...state.messages, { role: "system", content: `Observation: ...` }] with
\* the observation written over the last message
WithObservation_overwrite(messages, observation) ==
  [messages EXCEPT ![Len(messages)] = Observation(observation)]

\* [...state.messages, { role: "system", content: `Observation: ${observation}` }]
WithObservation(messages, observation) == Append(messages, Observation(observation))

\* ObservationText without the prefix of the catch clause
ObservationText_no_prefix(o) == o.text

\* The observation of a tool that ran: String(result), or the message of
\* the failure caught
ObservationText(o) == IF o.raised THEN <<"Error: ">> \o o.text ELSE o.text

\* tool_executor that reports that there was no action
NoAction_observes(st) == [st EXCEPT !.messages = WithObservation(@, <<"No action">>)]

\* if (!actionMatch) return state
NoAction(st) == st

\* Node tool_executor
tool_executor(r) ==
  /\ pc[r] = "tool_executor"
  /\ pc' = [pc EXCEPT ![r] = edge("tool_executor")]
  /\ trace' = [trace EXCEPT ![r] = Append(@, Ran("tool_executor", FALSE))]
  /\ UNCHANGED <<calc, tools, error, response, calls, switches, before>>
  /\ LET messages == state[r].messages
         lastMessage == messages[Len(messages)]
         actionMatch == ActionMatch(lastMessage.content)
         tool == FindTool(tools, actionMatch.toolName)
     IN  IF ~actionMatch.matched
         THEN /\ outcome' = [outcome EXCEPT ![r] = Outcome("noaction", << >>)]
              /\ state' = [state EXCEPT ![r] = NoAction(@)]
              /\ UNCHANGED log
         ELSE IF tool = 0
         THEN /\ outcome' = [outcome EXCEPT ![r] = Outcome("notfound", actionMatch.toolName)]
              /\ state' = [state EXCEPT ![r].messages =
                             WithObservation(@, NotFound(actionMatch.toolName))]
              /\ log' = [log EXCEPT ![r] =
                             Append(@, Observation(NotFound(actionMatch.toolName)))]
         ELSE \E o \in ToolOutcomes(tools[tool], Trim(actionMatch.toolInput)) :
              /\ outcome' = [outcome EXCEPT ![r] =
                               Outcome(IF o.raised THEN "raised" ELSE "returned", o.text)]
              /\ state' = [state EXCEPT ![r].messages =
                             WithObservation(@, ObservationText(o))]
              /\ log' = [log EXCEPT ![r] = Append(@, Observation(ObservationText(o)))]

\* route with the bound compared by > instead of >=
route_off_by_one(st) ==
  IF st.final_answer.present /\ st.final_answer.text # << >> THEN "end"
  ELSE IF st.current_step > 10 THEN "end"
  ELSE "continue"

\* The condition of addConditionalEdges: "end" or "continue".  A text is
\* truthy when it is not empty.
route(st) ==
  IF st.final_answer.present /\ st.final_answer.text # << >> THEN "end"
  ELSE IF st.current_step >= 10 THEN "end"
  ELSE "continue"

\* response_generator_result with the step counted in both branches
response_generator_result_always_counts(st) ==
  LET lastMessage == st.messages[Len(st.messages)]
      answerMatch == AnswerMatch(lastMessage.content)
  IN  IF answerMatch.matched
      THEN [st EXCEPT !.final_answer = Defined(Trim(answerMatch.text)),
                      !.current_step = @ + 1]
      ELSE [st EXCEPT !.current_step = @ + 1]

\* What the node response_generator returns
response_generator_result(st) ==
  LET lastMessage == st.messages[Len(st.messages)]
      answerMatch == AnswerMatch(lastMessage.content)
  IN  IF answerMatch.matched
      THEN [st EXCEPT !.final_answer = Defined(Trim(answerMatch.text))]
      ELSE [st EXCEPT !.current_step = @ + 1]

\* Node response_generator, and the edge that leaves it
response_generator(r) ==
  /\ pc[r] = "response_generator"
  /\ state' = [state EXCEPT ![r] = response_generator_result(@)]
  /\ pc' = [pc EXCEPT ![r] = IF route(state'[r]) = "end" THEN "END" ELSE "parse_input"]
  /\ LET lastMessage == state[r].messages[Len(state[r].messages)]
     IN  trace' = [trace EXCEPT ![r] =
                     Append(@, Ran("response_generator", AnswerMatch(lastMessage.content).matched))]
  /\ UNCHANGED <<calc, tools, error, response, calls, switches, before, outcome, log>>

\* AnswerOf without the fallback text
AnswerOf_no_fallback(st) == st.final_answer.text

\* result.final_answer ?? "No answer generated within step limit."
AnswerOf(st) ==
  IF st.final_answer.present THEN st.final_answer.text
  ELSE <<"No answer generated within step limit.">>

\* The handler of serve after graph.invoke has returned
respond(r) ==
  /\ pc[r] = "END"
  /\ response' = [response EXCEPT ![r] = Response(200, "answer", AnswerOf(state[r]))]
  /\ pc' = [pc EXCEPT ![r] = "done"]
  /\ UNCHANGED <<calc, tools, state, error, calls, switches, before, outcome, log, trace>>

\* The handler of serve after graph.invoke has rejected
respond_error(r) ==
  /\ pc[r] = "rejected"
  /\ response' = [response EXCEPT ![r] = Response(500, "error", error[r])]
  /\ pc' = [pc EXCEPT ![r] = "done"]
  /\ UNCHANGED <<calc, tools, state, error, calls, switches, before, outcome, log, trace>>

\* One request
Next ==
  \/ \E req \in Requests : serve(1, req)
  \/ parse_input(1, Replies, ModelErrors, MaxCalls)
  \/ tool_executor(1)
  \/ response_generator(1)
  \/ respond(1)
  \/ respond_error(1)

Spec == Init /\ [][Next]_vars

\* Requests in progress at once
NextConc ==
  \E r \in Runs :
    \/ serve(r, ConcRequest(r))
    \/ parse_input(r, ConcReplies, ConcErrors, MaxConcCalls)
    \/ tool_executor(r)
    \/ response_generator(r)
    \/ respond(r)
    \/ respond_error(r)

\* The array as shipped
InitConc == Init /\ tools = <<Calculator>>

SpecConc == InitConc /\ [][NextConc]_vars

(* ----------------------- Calculator.run by itself ---------------------- *)

\* The operands and operators of the expressions given to Calculator.run
CalcNumbers == { <<"0">>, <<"2">>, <<"1", "0">> }
CalcOperators == {"+", "-", "*", "/"}

\* Expressions of one, two and three operands, without those with a
\* quotient that is not an integer
CalcExpressions ==
  LET all == CalcNumbers
               \cup {a \o <<o>> \o b : a \in CalcNumbers, o \in CalcOperators, b \in CalcNumbers}
               \cup {a \o <<o[1]>> \o b \o <<o[2]>> \o c :
                       a \in CalcNumbers, b \in CalcNumbers, c \in CalcNumbers,
                       o \in CalcOperators \X CalcOperators}
  IN  {e \in all : Evaluate(e).v.kind # "frac"}

\* Expressions that end with an operator
CalcMalformed == {a \o <<o>> : a \in CalcNumbers, o \in CalcOperators}

\* Texts with a character that is not one of CalculatorChars
CalcForbidden ==
  LET two == {a \o <<o>> \o b : a \in CalcNumbers, o \in {"+", "/"}, b \in CalcNumbers}
  IN  {e \o <<";", " ", "import", " ", "os">> : e \in two}
        \cup {<<"x", "=">> \o e : e \in two}
        \cup {<<a[1], "e", "2">> : a \in CalcNumbers}
        \cup {<<"alert", "(", "1", ")">>, <<"import">>}

\* The inputs of Calculator.run in this model
CalcInputs == CalcExpressions \cup CalcMalformed \cup CalcForbidden \cup {<< >>, <<" ">>}

InitCalc ==
  /\ InitRuns
  /\ tools = <<Calculator>>
  /\ \E input \in CalcInputs :
       calc = [phase |-> "called", input |-> input, result |-> << >>, evaluated |-> FALSE]

\* Calculator.run: the test of the input
calc_test ==
  /\ calc.phase = "called"
  /\ calc' = IF CalculatorValid(calc.input)
             THEN [calc EXCEPT !.phase = "evaluating"]
             ELSE [calc EXCEPT !.phase = "returned", !.result = <<"Invalid expression">>]
  /\ UNCHANGED <<tools, pc, state, error, response, calls, switches, before, outcome, log, trace>>

\* Calculator.run: the evaluation, and the catch
calc_evaluate ==
  /\ calc.phase = "evaluating"
  /\ calc' = [calc EXCEPT !.phase = "returned", !.evaluated = TRUE,
                          !.result = EvaluateText(calc.input)]
  /\ UNCHANGED <<tools, pc, state, error, response, calls, switches, before, outcome, log, trace>>

NextCalc == calc_test \/ calc_evaluate

SpecCalc == InitCalc /\ [][NextCalc]_vars

(* ------------------------------ claims --------------------------------- *)

\* The run r takes the step of the node n.
Steps(r, n) == pc[r] = n /\ pc'[r] # n

Last(s) == s[Len(s)]

\* The reply of the model in the current cycle of a run: the last message
\* of role "assistant"
Reply(r) == LastAssistant(state[r].messages)

\* C1: when the reply of a cycle matches `Answer: X`, the answer check of
\* that cycle ends the run with final_answer = X trimmed, whatever else the
\* reply holds and also when X is empty; after the end of the run the model
\* is not invoked.
C1_AnswerEndsRun ==
  [][\A r \in Runs :
       /\ (Steps(r, "response_generator") /\ AnswerMatch(Reply(r)).matched)
            => /\ pc'[r] = "END"
               /\ state'[r].final_answer = Defined(Trim(AnswerMatch(Reply(r)).text))
       /\ pc[r] \in {"END", "done"} => calls'[r] = calls[r]]_vars

\* C2: a run whose model invocations all succeed invokes the model at most
\* max_steps = 10 times, whatever the replies are.
C2_AtMostTenInvocations ==
  \A r \in Runs : error[r] = << >> => calls[r] <= 10

\* C3: 0 <= step <= max_steps = 10 in every state, and no step of the
\* program decreases step.
C3_StepBounded ==
  [][\A r \in Runs :
       /\ 0 <= state[r].current_step /\ state[r].current_step <= 10
       /\ state'[r].current_step <= 10
       /\ state[r].current_step <= state'[r].current_step]_vars

\* C3 witness: a run has used up its step budget.
C3_Witness == \E r \in Runs : state[r].current_step = 10 /\ pc[r] = "END"

\* C4: once final_answer is present the run is terminal: no later step
\* invokes the model, appends to the transcript, changes step or assigns
\* final_answer (so it becomes present at most once).
C4_AnswerIsTerminal ==
  [][\A r \in Runs :
       state[r].final_answer.present
         => state'[r] = state[r] /\ calls'[r] = calls[r] /\ outcome'[r] = outcome[r]]_vars

FallbackAnswer == <<"No answer generated within step limit.">>

UnknownToolReply == <<"Action:", " ", "Weather", "[", "NYC", "]">>

\* Every reply of the run asked for the unknown tool Weather.
OnlyUnknownTool(r) ==
  \A i \in 1..Len(state[r].messages) :
    state[r].messages[i].role = "assistant" => state[r].messages[i].content = UnknownToolReply

\* C5: a run that ends with step = max_steps and no final_answer does not
\* fail: its response is 200 with the fallback answer; and a run all of
\* whose replies ask for an unknown tool gets that response after exactly 10
\* model invocations.
C5_StepLimitFallback ==
  \A r \in Runs :
    /\ (state[r].current_step >= 10 /\ ~state[r].final_answer.present)
         => /\ pc[r] \in {"END", "done"}
            /\ error[r] = << >>
            /\ pc[r] = "done" => response[r] = Response(200, "answer", FallbackAnswer)
    /\ (pc[r] = "done" /\ response[r].status = 200 /\ response[r].kind = "answer"
          /\ OnlyUnknownTool(r))
         => /\ calls[r] = 10
            /\ Len(state[r].messages) = 22
            /\ response[r].text = FallbackAnswer

\* C5 witness: the run of scenario B has been answered.
C5_Witness ==
  \E r \in Runs :
    /\ pc[r] = "done" /\ OnlyUnknownTool(r) /\ calls[r] = 10
    /\ response[r] = Response(200, "answer", FallbackAnswer)

\* No tool of the array has the name T, trimmed, in any case of letters.
Unregistered(T) ==
  \A i \in 1..Len(tools) : toLowerCase(tools[i].name) # toLowerCase(Trim(T))

HasAnswerMarker(content) == \E i \in 1..Len(content) : content[i] = "Answer:"

C7_ToolFailureObserved ==
  [][\A r \in Runs :
       (Steps(r, "tool_executor") /\ outcome'[r].kind = "raised")
         => /\ state'[r].messages =
                 Append(state[r].messages,
                        Message("system", <<"Observation: ", "Error: ">> \o outcome'[r].text))
            /\ pc'[r] = "response_generator"
            /\ error'[r] = << >> /\ response'[r] = NoResponse]_vars

\* C7 witness: a tool has raised, and the run has gone on to a later cycle.
C7_Witness ==
  \E r \in Runs :
    /\ outcome[r].kind = "raised" /\ pc[r] = "tool_executor" /\ calls[r] = 2
    /\ state[r].messages[4] = Message("system", <<"Observation: ", "Error: ", "boom">>)

\* C8: when a model invocation fails, no assistant message is appended for
\* it, the run makes no further model invocation, tool dispatch or answer
\* check, and the only step left is the 500 response with the error text.
C8_ModelFailureIsFatal ==
  [][\A r \in Runs :
       /\ (error[r] = << >> /\ error'[r] # << >>)
            => state'[r] = state[r] /\ pc'[r] = "rejected"
       /\ error[r] # << >>
            => /\ state'[r] = state[r] /\ calls'[r] = calls[r] /\ outcome'[r] = outcome[r]
               /\ error'[r] = error[r]
               /\ pc'[r] # pc[r]
                    => /\ pc[r] = "rejected" /\ pc'[r] = "done"
                       /\ response'[r] = Response(500, "error", error[r])]_vars

\* C8 witness: the second model invocation of a run failed and the caller
\* got the 500 response.
C8_Witness ==
  \E r \in Runs :
    /\ pc[r] = "done" /\ calls[r] = 2 /\ Len(state[r].messages) = 4
    /\ response[r] = Response(500, "error", <<"Invalid response from LLM (no content)">>)

\* s is a prefix of t.
IsPrefix(s, t) == Len(s) <= Len(t) /\ SubSeq(t, 1, Len(s)) = s

\* C9: no step removes or changes an entry of the transcript, and a cycle
\* that completes has added to the transcript it began with one entry, an
\* assistant message, or two, an assistant message and then an observation.
C9_TranscriptGrows ==
  [][\A r \in Runs :
       /\ IsPrefix(state[r].messages, state'[r].messages)
       /\ Steps(r, "response_generator")
            => LET old == before[r]
                   new == state'[r].messages
                   n == Len(new) - Len(old)
               IN  /\ n \in {1, 2}
                   /\ IsPrefix(old, new)
                   /\ new[Len(old) + 1].role = "assistant"
                   /\ n = 2 => /\ new[Len(old) + 2].role = "system"
                               /\ Head(new[Len(old) + 2].content) = "Observation: "]_vars

\* C9 witness: two cycles have completed, one that added one entry and one
\* that added two.
C9_Witness ==
  \E r \in Runs :
    /\ pc[r] = "parse_input" /\ calls[r] = 2 /\ Len(state[r].messages) = 5
    /\ state[r].messages[3].role = "assistant" /\ state[r].messages[4].role = "assistant"

\* C10: with several requests in progress, the transcript of each run is
\* its own seed followed by the messages of its own cycles, and a step of
\* one run leaves the transcript, step and final_answer of every other run
\* as they were.
C10_RunsIsolated ==
  [][\A r \in Runs :
       /\ state[r].messages = log[r] /\ state'[r].messages = log'[r]
       /\ \A q \in Runs \ {r} : pc'[q] # pc[q] => state'[r] = state[r]]_vars

\* C10 witness: two runs are in the middle of a cycle, with different
\* queries and different replies.
C10_Witness ==
  \E a, b \in Runs :
    /\ a # b /\ pc[a] = "tool_executor" /\ pc[b] = "response_generator"
    /\ calls[a] = 2 /\ calls[b] = 1
    /\ state[a].messages[2] # state[b].messages[2]
    /\ state[a].messages[3] # state[b].messages[3]

\* A POST request whose body does not parse or has no string in query and
\* none in question
Malformed(req) ==
  /\ req.method = "POST"
  /\ \/ ~req.body.json
     \/ req.body.query.t # "string" /\ req.body.question.t # "string"

\* C11: a POST request whose body does not parse, or whose query and
\* question are missing or not strings, is answered 400 and its run never
\* starts: no state is made for it, the model is not invoked and no tool is
\* dispatched.
C11_BadRequestNeverStarts ==
  /\ [](\A r \in Runs :
          response[r].status = 400
            => /\ pc[r] = "done" /\ state[r] = NoState
               /\ calls[r] = 0 /\ outcome[r].kind = "none" /\ trace[r] = << >>)
  /\ [][\A r \in Runs : \A req \in Requests :
          (serve(r, req) /\ Malformed(req)) => response'[r].status = 400]_vars

\* C11 witness: a request without a query has been answered 400.
C11_Witness ==
  \E r \in Runs :
    /\ pc[r] = "done" /\ calls[r] = 0
    /\ response[r] = Response(400, "text", <<"Bad Request: Missing \"query\" string.">>)

\* The characters that an expression may hold: digits, . + - * / ( ) and
\* whitespace
AllowedCharacters ==
  {"0", "1", "2", "3", "4", "5", "6", "7", "8", "9", ".", "+", "-", "*", "/", "(", ")", " ", NL}

HasForbiddenCharacter(input) == \E i \in 1..Len(input) : input[i] \notin AllowedCharacters

\* C12: Calculator.run, given an input with a character outside digits,
\* . + - * / ( ) and whitespace, does not reach the evaluation and returns
\* exactly "Invalid expression".
C12_ForbiddenNeverEvaluated ==
  (calc.phase # "idle" /\ HasForbiddenCharacter(calc.input))
    => /\ calc.phase # "evaluating" /\ ~calc.evaluated
       /\ calc.phase = "returned" => calc.result = <<"Invalid expression">>

\* C12 witness: `2+2; import os` has been rejected.
C12_Witness ==
  /\ calc.phase = "returned" /\ ~calc.evaluated
  /\ calc.input = <<"2", "+", "2", ";", " ", "import", " ", "os">>
  /\ calc.result = <<"Invalid expression">>

\* The input holds a division by the literal 0.
DividesByZero(input) ==
  \E i \in 1..(Len(input) - 1) :
    /\ input[i] = "/" /\ input[i + 1] = "0"
    /\ i + 1 = Len(input) \/ input[i + 2] \notin Digit

EndsWithOperator(input) == input # << >> /\ input[Len(input)] \in {"+", "-", "*", "/"}

WellFormed(input) ==
  input # << >> /\ ~HasForbiddenCharacter(input) /\ ~EndsWithOperator(input)
    /\ \E i \in 1..Len(input) : input[i] \in Digit

\* C13: Calculator.run, given a validated expression that divides by zero
\* (such as `10/0`), returns a text that starts with "Error:".
C13_DivisionByZeroIsError ==
  (calc.phase = "returned" /\ WellFormed(calc.input) /\ DividesByZero(calc.input))
    => Head(calc.result) = "Error: "

\* C14: when the answer check sets final_answer, the value is the trimmed
\* text after `Answer:` in the last message of role "assistant"; it is not
\* taken from an observation, also when a tool was dispatched in the cycle.
C14_AnswerFromAssistant ==
  [][\A r \in Runs :
       (Steps(r, "response_generator") /\ Last(trace'[r]).answered)
         => /\ AnswerMatch(Reply(r)).matched
            /\ state'[r].final_answer = Defined(Trim(AnswerMatch(Reply(r)).text))]_vars

\* The nodes of one cycle, in the order of the edges
Cycle == <<"parse_input", "tool_executor", "response_generator">>

\* C15: in every cycle the nodes run in the order model invocation, tool
\* dispatch, answer check: the dispatch runs once between an invocation and
\* the answer check that follows it, also when the reply holds an answer.
C15_FixedOrder ==
  \A r \in Runs :
    /\ \A i \in 1..Len(trace[r]) : trace[r][i].node = Cycle[((i - 1) % 3) + 1]
    /\ pc[r] \in {"parse_input", "END"} => Len(trace[r]) % 3 = 0
    /\ pc[r] = "tool_executor" => Len(trace[r]) % 3 = 1
    /\ pc[r] = "response_generator" => Len(trace[r]) % 3 = 2

\* C15 witness: a run of two cycles has ended with a reply that holds an
\* answer, after the dispatch of its second cycle.
C15_Witness ==
  \E r \in Runs :
    /\ pc[r] = "END" /\ Len(trace[r]) = 6
    /\ AnswerMatch(Reply(r)).matched
    /\ trace[r][5].node = "tool_executor"

\* The number of messages of a role
CountRole(messages, role) ==
  Cardinality({i \in 1..Len(messages) : messages[i].role = role})

\* C16: the transcript that the k-th invocation of the model is given is
\* the system prompt and the query followed, in order, by every reply and
\* every observation of the cycles 1..k-1 (the record that log keeps); an
\* invocation that succeeds appends one message of role "assistant".
C16_InvocationSeesAll ==
  [][\A r \in Runs :
       calls'[r] = calls[r] + 1
         => /\ state[r].messages = log[r]
            /\ Len(log[r]) >= 2
            /\ log[r][1] = Message("system", systemPrompt)
            /\ \E q \in {Query1, Query2} : log[r][2] = Message("user", q)
            /\ \A i \in 3..Len(log[r]) :
                 log[r][i].role = "assistant" \/ Head(log[r][i].content) = "Observation: "
            /\ CountRole(log[r], "assistant") = calls[r]
            /\ before'[r] = state[r].messages
            /\ error'[r] = << >>
                 => /\ Len(state'[r].messages) = Len(state[r].messages) + 1
                    /\ IsPrefix(state[r].messages, state'[r].messages)
                    /\ Last(state'[r].messages).role = "assistant"]_vars

\* C16 witness: the second invocation was given a transcript with the
\* reply and the observation of the first cycle.
C16_Witness ==
  \E r \in Runs :
    /\ calls[r] = 2 /\ pc[r] = "tool_executor"
    /\ Len(before[r]) = 4
    /\ before[r][3].role = "assistant" /\ before[r][4].role = "system"

\* C17: when the reply holds no `Action: Name[Arg]`, the dispatch changes
\* nothing: no tool runs, no observation is appended, and the transcript,
\* the step and final_answer stay as they were.
C17_NoActionIsNoOp ==
  [][\A r \in Runs :
       (Steps(r, "tool_executor") /\ ~ActionMatch(Reply(r)).matched)
         => /\ state'[r] = state[r]
            /\ log'[r] = log[r]
            /\ outcome'[r] = Outcome("noaction", << >>)]_vars

\* C17 witness: a dispatch without an action has left the transcript as the
\* invocation made it.
C17_Witness ==
  \E r \in Runs :
    /\ pc[r] = "response_generator" /\ outcome[r].kind = "noaction"
    /\ Reply(r) = Thought
    /\ state[r].messages = Append(before[r], Message("assistant", Thought))

\* The reply with two actions
TwoActions ==
  <<"Action:", " ", "Weather", "[", "NYC", "]", NL, "Action:", " ", "Calculator", "[", "1", "]">>

\* C18: when the reply holds one or more `Action: Name[Arg]`, the first is
\* dispatched and no other: one message of role "system" that starts with
\* `Observation: ` is appended, whether the tool is unknown, fails or
\* succeeds.
C18_FirstActionOnly ==
  [][\A r \in Runs :
       (Steps(r, "tool_executor") /\ ActionMatch(Reply(r)).matched)
         => /\ outcome'[r].kind \in {"notfound", "raised", "returned"}
            /\ Len(state'[r].messages) = Len(state[r].messages) + 1
            /\ IsPrefix(state[r].messages, state'[r].messages)
            /\ Last(state'[r].messages).role = "system"
            /\ Head(Last(state'[r].messages).content) = "Observation: "
            /\ state'[r].current_step = state[r].current_step
            /\ state'[r].final_answer = state[r].final_answer
            /\ Reply(r) = TwoActions
                 => /\ outcome'[r] = Outcome("notfound", <<"Weather">>)
                    /\ Last(state'[r].messages).content =
                         <<"Observation: ", "Tool \"", "Weather", "\" not found">>]_vars

\* C18 witness: the reply with two actions has been dispatched.
C18_Witness ==
  \E r \in Runs :
    /\ pc[r] = "response_generator" /\ Reply(r) = TwoActions
    /\ outcome[r].kind = "notfound"
    /\ Len(state[r].messages) = Len(before[r]) + 2

\* The answer checks of a run that extracted no answer
Unanswered(r) ==
  {i \in 1..Len(trace[r]) : trace[r][i].node = "response_generator" /\ ~trace[r][i].answered}

\* C19: the step changes in the answer check only, there by one and when
\* no answer was extracted; so the step is the number of the cycles of the
\* run that have ended without an answer.
C19_StepCountsUnanswered ==
  /\ [](\A r \in Runs : state[r].current_step = Cardinality(Unanswered(r)))
  /\ [][\A r \in Runs :
          /\ ~Steps(r, "response_generator")
               => state'[r].current_step = state[r].current_step
          /\ Steps(r, "response_generator")
               => state'[r].current_step =
                    state[r].current_step + (IF Last(trace'[r]).answered THEN 0 ELSE 1)]_vars

\* C19 witness: a run has ended with an answer after two cycles without.
C19_Witness ==
  \E r \in Runs :
    /\ pc[r] = "END" /\ state[r].current_step = 2
    /\ state[r].final_answer.present /\ Len(trace[r]) = 9

\* A message is an observation
IsObservation(m) ==
  m.role = "system" /\ m.content # << >> /\ Head(m.content) = "Observation: "

\* C20: a transcript starts with the system prompt and the query; every
\* observation follows a message of role "assistant", so no two
\* observations are adjacent; the messages of role "assistant" are as many
\* as the invocations of the model that succeeded.
C20_TranscriptShape ==
  \A r \in Runs :
    LET m == state[r].messages
    IN  m # << >>
          => /\ Len(m) >= 2
             /\ m[1] = Message("system", systemPrompt)
             /\ m[2].role = "user" /\ m[2].content \in {Query1, Query2}
             /\ \A i \in 1..Len(m) :
                  IsObservation(m[i]) => i > 2 /\ m[i - 1].role = "assistant"
             /\ \A i \in 3..Len(m) : m[i].role = "assistant" \/ IsObservation(m[i])
             /\ CountRole(m, "assistant")
                  = calls[r] - (IF error[r] # << >> THEN 1 ELSE 0)

\* C20 witness: a transcript with a reply without an observation and a
\* reply with one.
C20_Witness ==
  \E r \in Runs :
    LET m == state[r].messages
    IN  /\ Len(m) = 5
        /\ m[3].role = "assistant" /\ m[4].role = "assistant" /\ IsObservation(m[5])

====
